---- MODULE Spec2Model ----
(***************************************************************************)
(* PySFT: the task scheduler (pysft/core/task_scheduler.py) and the        *)
(* fetcher manager (pysft/core/fetcher_manager.py).                        *)
(*                                                                         *)
(* The only implementation of taskScheduler in the repository is the one  *)
(* kept (commented out) in task_scheduler.py; the model follows it line by *)
(* line.  The scheduler is an asyncio program: the coroutine execute() and *)
(* the coroutines _execute_task() it spawns run on one event loop, so a    *)
(* coroutine runs without interruption from one await to the next.  Every  *)
(* action below is one such uninterrupted stretch; the position variables  *)
(* pc and tpc name the await each coroutine is suspended at.               *)
(*                                                                         *)
(* Memory sizes are counted in MB (ONE_MB is the unit), so that the 2 GB   *)
(* budget fits the integers of the model checker.                          *)
(***************************************************************************)
EXTENDS Integers, Sequences, FiniteSets, TLC

(* ---------------- bounds of the model ---------------- *)
NumTasks == 4

(* ---------------- program constants ---------------- *)
ONE_MB == 1
ONE_GB == ONE_MB * 1024
INSTANCE_MAX_MEMORY == ONE_GB * 2
MAX_TASK_MEMORY_ALLOCATION == ONE_MB * 200
MAX_ATTEMPTS == 3
YF_CONCURRENCY_LIMIT == 3
TASE_K_SEMAPHORES == 3
MAX_YFINANCE_TASKS == YF_CONCURRENCY_LIMIT
MAX_TASE_TASKS == TASE_K_SEMAPHORES

E_FetchType == {"YFINANCE", "TASE_FAST", "TASE_HISTORICAL"}
taskState == {"QUEUED", "RUNNING", "COMPLETED", "FAILED"}

\* classify_fetch_types gives every TASE instrument of a request the same type
TASE_types == E_FetchType \ {"YFINANCE"}

VARIABLES
    fetch_type,       \* taskContainer.fetch_type, by task index
    state,            \* taskContainer.state
    tpc,              \* position of the coroutine _execute_task(task)
    attempts,         \* number of calls of _dispatch_task_execution(task)
    queue,            \* taskScheduler.queue (deque of task indices)
    activeTasks,      \* taskScheduler.activeTasks
    activeYFinance,   \* taskScheduler.activeYFinance
    activeTASE,       \* taskScheduler.activeTASE
    running_tasks,    \* keys of taskScheduler.running_tasks
    completed_tasks,  \* keys of taskScheduler.completed_tasks
    pc,               \* position of the coroutine execute()
    waited,           \* time has passed since last_execution_time
    resources_free,   \* the last answer of can_execute_task
    requested,        \* the indicators of the request as the caller gave them
    attributes_arg,   \* the attributes of the request as the caller gave them
    attributes,       \* parsedInput.attributes
    DB_ENABLED,       \* constants.DB_ENABLED, the configuration switch of the cache
    cache_fresh,      \* indicators for which db.get_cached_data answers (data, fresh)
    fetched_record,   \* by indicator: the _indicator_data its fetch leaves in request.data
    data_length,      \* fetcher_settings.data_length
    period,           \* the period of the request as the caller gave it
    start,            \* the start of the request as the caller gave it, in half days
    end,              \* the end of the request as the caller gave it, in half days
    start_ts,         \* _fetchRequest.start_ts, in days
    end_ts,           \* _fetchRequest.end_ts, in days
    indicators,       \* parsedInput.indicators
    indicators_count, \* fetcher_settings.indicators_count
    cached_results,   \* keys of fetcher_manager._cached_results
    requests,         \* fetcher_manager.requests: indicator -> fetch type
    request_field,    \* fetcher_manager.requests: indicator -> identifiers of its indicatorRequest
    success,          \* indicatorRequest.success of the requests
    NEED_TASE,        \* fetcher_settings.NEED_TASE
    taskList,         \* the list create_task_list returns
    result,           \* by task: what fetchTask.execute() did
    cache_written,    \* indicators handed to db.cache_indicator_data
    fetched_data,     \* fetcher_manager.fetched_data: the indicators of the columns
    mpc,              \* position of managerRoutine
    connection,       \* DatabaseManager.connection is open
    now,              \* datetime.now(), in days
    indicators_table, \* the rows of table indicators, by indicator
    price_history,    \* the rows of table price_history
    lookup,           \* the last call of get_cached_data and its answer
    history,          \* the last call of get_historical_data and its answer
    container,        \* the _YF_fetchReq_Container of fetch_yfinance: requests' success flags, success
    remaining_requests, \* fetch_yfinance: remaining_requests (places in container.requests)
    attempt,          \* fetch_yfinance: the loop variable of its attempts
    downloads,        \* the calls of yf.download that fetch_yfinance has made
    ypc               \* position of fetch_yfinance

schedVars == << fetch_type, state, tpc, attempts, queue, activeTasks, activeYFinance,
                activeTASE, running_tasks, completed_tasks, pc, waited, resources_free >>

routineVars == << requested, attributes_arg, attributes, DB_ENABLED, cache_fresh, fetched_record,
                  data_length, period, start, end, start_ts, end_ts, indicators, indicators_count, cached_results, requests,
                  request_field, success, NEED_TASE, taskList, result, cache_written,
                  fetched_data, mpc >>

yfVars == << container, remaining_requests, attempt, downloads, ypc >>

mgrVars == << routineVars, yfVars >>

dbVars == << connection, now, indicators_table, price_history, lookup, history >>

vars == << schedVars, mgrVars, dbVars >>

Submitted == DOMAIN fetch_type

(* ---------------- helpers of the scheduler ---------------- *)

\* the variant that shares one concurrency counter
IsTASE(task_type) == task_type = "TASE_FAST" \/ task_type = "TASE_HISTORICAL"

\* fetchTask.est_mem_req_bytes
est_mem_req_bytes_wrong(t) == INSTANCE_MAX_MEMORY
est_mem_req_bytes(t) == MAX_TASK_MEMORY_ALLOCATION

\* check_task_status: the condition under which a slot is taken
check_task_status_off_by_one(task_type) ==
    \/ task_type = "YFINANCE" /\ activeYFinance <= MAX_YFINANCE_TASKS
    \/ IsTASE(task_type) /\ activeTASE <= MAX_TASE_TASKS
check_task_status(task_type) ==
    \/ task_type = "YFINANCE" /\ activeYFinance < MAX_YFINANCE_TASKS
    \/ IsTASE(task_type) /\ activeTASE < MAX_TASE_TASKS

\* check_task_status: the counters after a slot was taken
counters_after_take(task_type) ==
    IF task_type = "YFINANCE"
    THEN << activeYFinance + 1, activeTASE >>
    ELSE << activeYFinance, activeTASE + 1 >>

\* decrease_task_count: the counters after a slot was given back
decrease_task_count_noop(task_type) == << activeYFinance, activeTASE >>
decrease_task_count(task_type) ==
    IF task_type = "YFINANCE"
    THEN << activeYFinance - 1, activeTASE >>
    ELSE << activeYFinance, activeTASE - 1 >>

\* can_execute_task: the answers the CPU and memory readings of psutil can give
can_execute_task(task_type) == BOOLEAN

\* the rotation of the head of the deque to its end
rotate(q) == Tail(q) \o << Head(q) >>

\* no queued task can take a slot: execute() spins without reaching an await
Starved == \A i \in 1..Len(queue) : ~check_task_status(fetch_type[queue[i]])

\* execute() is suspended at an await, so the event loop can run other coroutines
LoopIsFree == pc \in {"delay", "yield", "wait", "drain", "returned", "timeout"}

(* ---------------- construction ---------------- *)

\* a timestamp column that holds NULL
None == -1

\* the store on its own is not under observation: no table has a row
NoDatabase ==
    /\ connection = FALSE
    /\ now = 0
    /\ indicators_table = << >>
    /\ price_history = {}
    /\ lookup = << >>
    /\ history = << >>

\* no fetch_yfinance is in progress
NoFetch ==
    /\ container = [requests |-> << >>, success |-> FALSE]
    /\ remaining_requests = {}
    /\ attempt = 0
    /\ downloads = 0
    /\ ypc = "none"

\* no managerRoutine is in progress
NoRequest ==
    /\ requested = << >>
    /\ attributes_arg = << >>
    /\ attributes = << >>
    /\ cache_fresh = {}
    /\ fetched_record = << >>
    /\ data_length = 1
    /\ period = "None"
    /\ start = None
    /\ end = None
    /\ start_ts = None
    /\ end_ts = None
    /\ indicators = << >>
    /\ indicators_count = 0
    /\ cached_results = {}
    /\ requests = << >>
    /\ request_field = << >>
    /\ success = << >>
    /\ NEED_TASE = FALSE
    /\ taskList = << >>
    /\ result = << >>
    /\ cache_written = << >>
    /\ fetched_data = << >>
    /\ mpc = "none"

\* no scheduler is under observation while the manager is
NoScheduler ==
    /\ fetch_type = << >>
    /\ state = << >>
    /\ tpc = << >>
    /\ attempts = << >>
    /\ queue = << >>
    /\ activeTasks = 0
    /\ activeYFinance = 0
    /\ activeTASE = 0
    /\ running_tasks = {}
    /\ completed_tasks = {}
    /\ pc = "none"
    /\ waited = FALSE
    /\ resources_free = TRUE

\* the scheduler on its own
NoManager ==
    /\ NoRequest
    /\ DB_ENABLED = FALSE

\* taskScheduler.__init__ and _initialize_tasks
Init ==
    /\ \E n \in 0..NumTasks : \E tase \in TASE_types :
           fetch_type \in [1..n -> {"YFINANCE", tase}]
    /\ state = [t \in DOMAIN fetch_type |-> "QUEUED"]
    /\ tpc = [t \in DOMAIN fetch_type |-> "idle"]
    /\ attempts = [t \in DOMAIN fetch_type |-> 0]
    /\ queue = [i \in DOMAIN fetch_type |-> i]
    /\ activeTasks = 0
    /\ activeYFinance = 0
    /\ activeTASE = 0
    /\ running_tasks = {}
    /\ completed_tasks = {}
    /\ pc = "start"
    /\ waited = FALSE
    /\ resources_free = TRUE
    /\ NoManager
    /\ NoFetch
    /\ NoDatabase

taskVars == << fetch_type, state, tpc, attempts, activeTasks, running_tasks, completed_tasks >>

(* ---------------- the coroutine execute() ---------------- *)

\* execute(): nothing was submitted
ExecuteEmpty ==
    /\ pc = "start"
    /\ queue = << >>
    /\ pc' = "returned"
    /\ UNCHANGED << dbVars, mgrVars, taskVars, queue, activeYFinance, activeTASE, waited, resources_free >>

\* execute(): the timers are started and the loop is entered
ExecuteBegin ==
    /\ pc = "start"
    /\ queue # << >>
    /\ pc' = "loop"
    /\ waited' = FALSE
    /\ UNCHANGED << dbVars, mgrVars, taskVars, queue, activeYFinance, activeTASE, resources_free >>

\* execute(): the global scheduler timeout
SchedulerTimeout ==
    /\ pc = "loop"
    /\ queue # << >>
    /\ waited
    /\ pc' = "timeout"
    /\ UNCHANGED << dbVars, mgrVars, taskVars, queue, activeYFinance, activeTASE, waited, resources_free >>

\* execute(): the head cannot take a slot, it is rotated and the loop continues at once
Rotate ==
    /\ pc = "loop"
    /\ queue # << >>
    /\ ~check_task_status(fetch_type[Head(queue)])
    /\ queue' = rotate(queue)
    /\ waited' = (waited \/ Starved)
    /\ UNCHANGED << dbVars, mgrVars, taskVars, activeYFinance, activeTASE, pc, resources_free >>

\* execute(): the head takes a slot, then the delay that reduces contention
Admit ==
    /\ pc = "loop"
    /\ queue # << >>
    /\ check_task_status(fetch_type[Head(queue)])
    /\ activeYFinance' = counters_after_take(fetch_type[Head(queue)])[1]
    /\ activeTASE' = counters_after_take(fetch_type[Head(queue)])[2]
    /\ pc' = "delay"
    /\ UNCHANGED << dbVars, mgrVars, taskVars, queue, waited, resources_free >>

\* execute(): resources are there, the task is taken off the queue and spawned
Launch ==
    /\ pc = "delay"
    /\ TRUE \in can_execute_task(fetch_type[Head(queue)])
    /\ resources_free' = TRUE
    /\ queue' = Tail(queue)
    /\ waited' = FALSE
    /\ tpc' = [tpc EXCEPT ![Head(queue)] = "created"]
    /\ pc' = "yield"
    /\ UNCHANGED << dbVars, mgrVars, fetch_type, state, attempts, activeTasks, running_tasks,
                    completed_tasks, activeYFinance, activeTASE >>

\* execute(): no resources, the slot is given back and the task rotated
Defer ==
    /\ pc = "delay"
    /\ FALSE \in can_execute_task(fetch_type[Head(queue)])
    /\ resources_free' = FALSE
    /\ activeYFinance' = decrease_task_count(fetch_type[Head(queue)])[1]
    /\ activeTASE' = decrease_task_count(fetch_type[Head(queue)])[2]
    /\ queue' = rotate(queue)
    /\ waited' = TRUE
    /\ pc' = "wait"
    /\ UNCHANGED << dbVars, mgrVars, taskVars >>

\* the event loop runs the spawned coroutine before the one-second sleep ends
spawned_has_started_unchecked == TRUE
spawned_has_started == \A t \in Submitted : tpc[t] # "created"

\* execute(): the sleep after create_task is over
Resume ==
    /\ pc = "yield"
    /\ spawned_has_started
    /\ pc' = "loop"
    /\ UNCHANGED << dbVars, mgrVars, taskVars, queue, activeYFinance, activeTASE, waited, resources_free >>

\* execute(): the sleep of check_interval is over
WaitOver ==
    /\ pc = "wait"
    /\ pc' = "loop"
    /\ UNCHANGED << dbVars, mgrVars, taskVars, queue, activeYFinance, activeTASE, waited, resources_free >>

\* execute(): the queue is empty, on to waiting for the running tasks
QueueDrained ==
    /\ pc = "loop"
    /\ queue = << >>
    /\ pc' = "drain"
    /\ UNCHANGED << dbVars, mgrVars, taskVars, queue, activeYFinance, activeTASE, waited, resources_free >>

\* execute(): no task is running any more, the totals are printed and execute() returns
ExecuteReturn ==
    /\ pc = "drain"
    /\ running_tasks = {}
    /\ pc' = "returned"
    /\ UNCHANGED << dbVars, mgrVars, taskVars, queue, activeYFinance, activeTASE, waited, resources_free >>

(* ---------------- the coroutine _execute_task(task) ---------------- *)

\* _execute_task: registration of the task, then the await of the fetch
StartTask(t) ==
    /\ LoopIsFree
    /\ tpc[t] = "created"
    /\ state' = [state EXCEPT ![t] = "RUNNING"]
    /\ running_tasks' = running_tasks \cup {t}
    /\ activeTasks' = activeTasks + 1
    /\ attempts' = [attempts EXCEPT ![t] = @ + 1]
    /\ tpc' = [tpc EXCEPT ![t] = "dispatch"]
    /\ UNCHANGED << dbVars, mgrVars, fetch_type, completed_tasks, queue, activeYFinance, activeTASE,
                    pc, waited, resources_free >>

\* _execute_task: the finally block
Cleanup_no_record(t) ==
    /\ running_tasks' = running_tasks \ {t}
    /\ completed_tasks' = completed_tasks
    /\ activeTasks' = activeTasks - 1
    /\ activeYFinance' = decrease_task_count(fetch_type[t])[1]
    /\ activeTASE' = decrease_task_count(fetch_type[t])[2]
    /\ tpc' = [tpc EXCEPT ![t] = "finished"]
Cleanup(t) ==
    /\ running_tasks' = running_tasks \ {t}
    /\ completed_tasks' = completed_tasks \cup {t}
    /\ activeTasks' = activeTasks - 1
    /\ activeYFinance' = decrease_task_count(fetch_type[t])[1]
    /\ activeTASE' = decrease_task_count(fetch_type[t])[2]
    /\ tpc' = [tpc EXCEPT ![t] = "finished"]

\* _execute_task: the fetch returned
DispatchReturns(t) ==
    /\ LoopIsFree
    /\ tpc[t] = "dispatch"
    /\ state' = [state EXCEPT ![t] = "COMPLETED"]
    /\ Cleanup(t)
    /\ UNCHANGED << dbVars, mgrVars, fetch_type, attempts, queue, pc, waited, resources_free >>

\* _execute_task: the fetch raised
DispatchRaises_retries(t) ==
    /\ LoopIsFree
    /\ tpc[t] = "dispatch"
    /\ IF attempts[t] < MAX_ATTEMPTS
       THEN /\ attempts' = [attempts EXCEPT ![t] = @ + 1]
            /\ UNCHANGED << state, tpc, running_tasks, completed_tasks, activeTasks,
                            activeYFinance, activeTASE >>
       ELSE /\ state' = [state EXCEPT ![t] = "FAILED"]
            /\ Cleanup(t)
            /\ UNCHANGED attempts
    /\ UNCHANGED << dbVars, mgrVars, fetch_type, queue, pc, waited, resources_free >>
DispatchRaises_propagates(t) ==
    /\ LoopIsFree
    /\ tpc[t] = "dispatch"
    /\ state' = [state EXCEPT ![t] = "FAILED"]
    /\ Cleanup(t)
    /\ pc' = "timeout"
    /\ UNCHANGED << dbVars, mgrVars, fetch_type, attempts, queue, waited, resources_free >>
DispatchRaises(t) ==
    /\ LoopIsFree
    /\ tpc[t] = "dispatch"
    /\ state' = [state EXCEPT ![t] = "FAILED"]
    /\ Cleanup(t)
    /\ UNCHANGED << dbVars, mgrVars, fetch_type, attempts, queue, pc, waited, resources_free >>

\* _execute_task: the task is cancelled when the event loop is torn down
\* after execute() raised; only the finally block runs
DispatchCancelled(t) ==
    /\ pc = "timeout"
    /\ tpc[t] = "dispatch"
    /\ Cleanup(t)
    /\ UNCHANGED << dbVars, mgrVars, fetch_type, state, attempts, queue, pc, waited, resources_free >>

SchedulerStep ==
    \/ ExecuteEmpty
    \/ ExecuteBegin
    \/ SchedulerTimeout
    \/ Rotate
    \/ Admit
    \/ Launch
    \/ Defer
    \/ Resume
    \/ WaitOver
    \/ QueueDrained
    \/ ExecuteReturn

TaskStep(t) ==
    \/ StartTask(t)
    \/ DispatchReturns(t)
    \/ DispatchRaises(t)
    \/ DispatchCancelled(t)

Next ==
    \/ SchedulerStep
    \/ \E t \in Submitted : TaskStep(t)

Spec == Init /\ [][Next]_vars

\* every fetch ends, every coroutine that can run does run, a due timeout is raised
FairSpec ==
    /\ Init
    /\ [][Next]_vars
    /\ WF_vars(SchedulerStep)
    /\ WF_vars(SchedulerTimeout)
    /\ \A t \in 1..NumTasks : WF_vars(t \in Submitted /\ TaskStep(t))

(* ======================= the cache store ======================= *)
(* DatabaseManager (pysft/core/database.py), reached the way the manager    *)
(* reaches it: through get_db_manager(), which opens the store at DB_PATH   *)
(* when no manager exists.  Time is counted in days.                        *)

\* bound: the longest list of attributes
MaxAttributes == 2

LONGTERM_TTL_DAYS == 365
MEDIUM_TTL_DAYS == 90
SHORT_TTL_DAYS == 7

IMMUTABLE_FIELDS == {"ISIN"}
LONGTERM_TTL_FIELDS == {"name", "quoteType", "currency"}
MEDIUM_TTL_FIELDS == {"briefSummary"}
SHORT_TTL_FIELDS == {"expense_rate", "dividendYield", "trailingPE", "forwardPE", "beta",
                     "avgDailyVolume3mnth"}
PRICE_FIELDS == {"last", "open", "high", "low", "volume", "price", "change_pct", "market_cap"}

\* the attributes the lookups and writes of the model name: every tier, two of
\* one tier, and a price field
Attributes == {"ISIN", "name", "currency", "briefSummary", "beta", "price"}

\* the instruments the store is asked about
CacheIds == {"AAPL"}

\* the days on which the store is called: counted from day 0 they lie one day
\* past each TTL, counted from day 1 on the last day of each TTL
CallDays == {0, 1, SHORT_TTL_DAYS + 1, MEDIUM_TTL_DAYS + 1, LONGTERM_TTL_DAYS + 1}

\* the duplicate-free lists of at most MaxAttributes attributes (_parse_attributes)
AttributeLists ==
    {a \in UNION {[1..n -> Attributes] : n \in 0..MaxAttributes} :
        \A x, y \in DOMAIN a : x # y => a[x] # a[y]}

\* _check_freshness: age > timedelta(days=TTL)
expired_at_boundary(ts, t, ttl_days) == t - ts >= ttl_days
expired(ts, t, ttl_days) == t - ts > ttl_days

\* _check_freshness: the branch of an immutable field
immutable_is_stale_with_ttl(immutable_ts, t) ==
    immutable_ts = None \/ expired(immutable_ts, t, LONGTERM_TTL_DAYS)
immutable_is_stale(immutable_ts, t) == immutable_ts = None

\* _check_freshness: the fall-through for a field of no tier
untiered_is_fresh_lenient == TRUE
untiered_is_fresh == FALSE

\* _check_freshness: the body of the loop, FALSE where it returns False
attr_passes(attr, row, t) ==
    IF attr \in IMMUTABLE_FIELDS
    THEN ~immutable_is_stale(row.immutable_fetched_at, t)
    ELSE IF attr \in LONGTERM_TTL_FIELDS
    THEN /\ row.longterm_fetched_at # None
         /\ ~expired(row.longterm_fetched_at, t, LONGTERM_TTL_DAYS)
    ELSE IF attr \in MEDIUM_TTL_FIELDS
    THEN /\ row.medium_fetched_at # None
         /\ ~expired(row.medium_fetched_at, t, MEDIUM_TTL_DAYS)
    ELSE IF attr \in SHORT_TTL_FIELDS
    THEN /\ row.short_fetched_at # None
         /\ ~expired(row.short_fetched_at, t, SHORT_TTL_DAYS)
    ELSE untiered_is_fresh

\* _check_freshness: the loop over the requested attributes
RECURSIVE check_freshness_any(_, _, _)
check_freshness_any(requested_attributes, row, t) ==
    IF requested_attributes = << >> THEN FALSE
    ELSE IF attr_passes(Head(requested_attributes), row, t) THEN TRUE
    ELSE check_freshness_any(Tail(requested_attributes), row, t)
RECURSIVE check_freshness(_, _, _)
check_freshness(requested_attributes, row, t) ==
    IF requested_attributes = << >> THEN TRUE
    ELSE IF ~attr_passes(Head(requested_attributes), row, t) THEN FALSE
    ELSE check_freshness(Tail(requested_attributes), row, t)

\* get_cached_data: (cached_data is not None, is_fresh)
get_cached_data_unread(indicator, requested_attributes) ==
    [cached_data |-> DB_ENABLED /\ indicator \in DOMAIN indicators_table, is_fresh |-> FALSE]
get_cached_data(indicator, requested_attributes) ==
    IF ~DB_ENABLED \/ indicator \notin DOMAIN indicators_table
    THEN [cached_data |-> FALSE, is_fresh |-> FALSE]
    ELSE [cached_data |-> TRUE,
          is_fresh |-> check_freshness(requested_attributes, indicators_table[indicator], now)]

\* DatabaseManager on a store that was never written
CacheInit ==
    /\ NoScheduler
    /\ NoFetch
    /\ NoRequest
    /\ DB_ENABLED \in BOOLEAN
    /\ connection = FALSE
    /\ now = 0
    /\ indicators_table = << >>
    /\ price_history = {}
    /\ lookup = << >>
    /\ history = << >>

\* lookup and history hold what a call returned until its caller has used it
Idle == lookup = << >> /\ history = << >>

\* days pass between two calls
Tick(d) ==
    /\ Idle
    /\ d \in CallDays
    /\ d > now
    /\ now' = d
    /\ UNCHANGED << schedVars, mgrVars, connection, indicators_table, price_history,
                    lookup, history >>

\* the caller has used the answer: _check_cache has put the indicator among
\* cached_results or indicators_to_fetch
AnswerUsed ==
    /\ ~Idle
    /\ lookup' = << >>
    /\ history' = << >>
    /\ UNCHANGED << schedVars, mgrVars, connection, now, indicators_table, price_history >>

\* close_db
CloseDb ==
    /\ Idle
    /\ connection
    /\ connection' = FALSE
    /\ UNCHANGED << schedVars, mgrVars, now, indicators_table, price_history, lookup, history >>

\* _check_cache: one turn of its loop, get_db_manager().get_cached_data and
\* the choice between cached_results and indicators_to_fetch
GetCachedData(indicator, requested_attributes) ==
    /\ Idle
    /\ connection' = DB_ENABLED
    /\ lookup' = [indicator |-> indicator,
                  requested_attributes |-> requested_attributes,
                  cached_data |-> get_cached_data(indicator, requested_attributes).cached_data,
                  is_fresh |-> get_cached_data(indicator, requested_attributes).is_fresh,
                  to_fetch |-> ~(/\ get_cached_data(indicator, requested_attributes).cached_data
                                 /\ get_cached_data(indicator, requested_attributes).is_fresh),
                  at |-> now]
    /\ UNCHANGED << schedVars, mgrVars, now, indicators_table, price_history, history >>

\* cache_indicator_data: update_immutable, update_longterm, update_medium, update_short
update_tier(tier_fields, fetched_fields) == \E f \in fetched_fields : f \in tier_fields

\* cache_indicator_data: a timestamp column after the UPDATE or the INSERT
column_after_write_always(indicator, column, tier_fields, fetched_fields) == now
column_after_write_replace(indicator, column, tier_fields, fetched_fields) ==
    IF update_tier(tier_fields, fetched_fields) THEN now ELSE None
column_after_write(indicator, column, tier_fields, fetched_fields) ==
    IF update_tier(tier_fields, fetched_fields) THEN now
    ELSE IF indicator \in DOMAIN indicators_table THEN indicators_table[indicator][column]
    ELSE None

\* cache_indicator_data: the row after the UPDATE or the INSERT
row_after_write(indicator, fetched_fields) ==
    [immutable_fetched_at |->
         column_after_write(indicator, "immutable_fetched_at", IMMUTABLE_FIELDS, fetched_fields),
     longterm_fetched_at |->
         column_after_write(indicator, "longterm_fetched_at", LONGTERM_TTL_FIELDS, fetched_fields),
     medium_fetched_at |->
         column_after_write(indicator, "medium_fetched_at", MEDIUM_TTL_FIELDS, fetched_fields),
     short_fetched_at |->
         column_after_write(indicator, "short_fetched_at", SHORT_TTL_FIELDS, fetched_fields),
     last_fetched_at |-> now]

\* get_db_manager().cache_indicator_data
CacheIndicatorData(indicator, fetched_fields) ==
    /\ Idle
    /\ connection' = DB_ENABLED
    /\ indicators_table' =
           IF ~DB_ENABLED THEN indicators_table
           ELSE [i \in DOMAIN indicators_table \cup {indicator} |->
                    IF i = indicator THEN row_after_write(indicator, fetched_fields)
                    ELSE indicators_table[i]]
    /\ UNCHANGED << schedVars, mgrVars, now, price_history, lookup, history >>

\* the calendar days and the prices of the time series (bound: the last day)
MaxDate == 2
Dates == 1..MaxDate
Opens == {10, 11}

\* the instruments of the time series
HistoryIds == {"AAPL", "MSFT"}

\* cache_historical_data: INSERT OR REPLACE of one row under PRIMARY KEY (indicator, date)
insert_plain(table, row) == table \cup {row}
insert_or_replace(table, row) ==
    {r \in table : ~(r.indicator = row.indicator /\ r.date = row.date)} \cup {row}

\* cache_historical_data: the rows it prepares, a price is NULL past the end of
\* its list.  The columns open, high, low, close, volume, change_pct and
\* market_cap are written alike, open stands for them; get_historical_data
\* reads them back alike, but for close, of which it keeps closes[-1] only.
prepared_rows(indicator, dates, open_prices) ==
    [j \in 1..Len(dates) |->
        [indicator |-> indicator, date |-> dates[j],
         open |-> IF j <= Len(open_prices) THEN open_prices[j] ELSE None]]

\* cache_historical_data: executemany
RECURSIVE executemany(_, _)
executemany(table, rows) ==
    IF rows = << >> THEN table
    ELSE executemany(insert_or_replace(table, Head(rows)), Tail(rows))

\* cache_historical_data: the table after the call
table_after_write(indicator, dates, open_prices) ==
    executemany(price_history, prepared_rows(indicator, dates, open_prices))

\* get_db_manager().cache_historical_data
CacheHistoricalData(indicator, dates, open_prices) ==
    /\ Idle
    /\ connection' = DB_ENABLED
    /\ price_history' =
           IF ~DB_ENABLED THEN price_history
           ELSE table_after_write(indicator, dates, open_prices)
    /\ UNCHANGED << schedVars, mgrVars, now, indicators_table, lookup, history >>

\* get_historical_data: the SELECT over the closed range of dates
selected_rows_open_start(indicator, start_date, end_date) ==
    {r \in price_history :
        r.indicator = indicator /\ r.date > start_date /\ r.date <= end_date}
selected_rows(indicator, start_date, end_date) ==
    {r \in price_history :
        r.indicator = indicator /\ r.date >= start_date /\ r.date <= end_date}

\* get_db_manager().get_historical_data: None when no row is selected
GetHistoricalData(indicator, start_date, end_date) ==
    /\ Idle
    /\ connection' = DB_ENABLED
    /\ history' = [indicator |-> indicator, start_date |-> start_date, end_date |-> end_date,
                   rows |-> IF DB_ENABLED
                            THEN selected_rows(indicator, start_date, end_date) ELSE {},
                   at |-> now]
    /\ UNCHANGED << schedVars, mgrVars, now, indicators_table, price_history, lookup >>

\* the lists of dates and of prices one call of cache_historical_data is given
DateLists == UNION {[1..n -> Dates] : n \in 1..2}
OpenLists == UNION {[1..n -> Opens] : n \in 0..2}

\* the sets of at most MaxAttributes fields one call of cache_indicator_data is given
FetchedFieldSets == {F \in SUBSET Attributes : Cardinality(F) <= MaxAttributes}

\* the table of indicators: writes, lookups and the passing of time
CacheNext ==
    \/ \E d \in CallDays : Tick(d)
    \/ AnswerUsed
    \/ CloseDb
    \/ \E i \in CacheIds : \E a \in AttributeLists : GetCachedData(i, a)
    \/ \E i \in CacheIds : \E F \in FetchedFieldSets : CacheIndicatorData(i, F)

CacheSpec == CacheInit /\ [][CacheNext]_vars

\* the table of the time series: writes, range queries and the passing of time.
\* No code of the time series looks at the clock: one jump past the longest
\* TTL stands for the time that passes.
HistoryNext ==
    \/ Tick(LONGTERM_TTL_DAYS + 1)
    \/ AnswerUsed
    \/ CloseDb
    \/ \E i \in HistoryIds : \E ds \in DateLists : \E os \in OpenLists :
           CacheHistoricalData(i, ds, os)
    \/ \E i \in HistoryIds : \E a, b \in Dates : GetHistoricalData(i, a, b)

HistorySpec == CacheInit /\ [][HistoryNext]_vars

(* ======================= the fetcher manager ======================= *)
(* managerRoutine() is sequential; each action is one of the calls it makes *)
(* in turn.  scheduler.run() is taken by its contract with the tasks: every *)
(* task's execute() is called once, in any order (fetch_task.py), or run()  *)
(* raises the scheduler's TimeoutError.                                     *)

\* bound: the longest request
MaxRequest == 3

YF_BATCH_SIZE == 30

\* the instruments a request can name
Indicators == {"AAPL", "MSFT", "1081124", "629014", "5138094"}

\* has_tase_indicators: indicator.isdigit() or indicator.startswith("126.")
is_tase_indicator_digits(indicator) == indicator \in {"1081124", "629014", "5138094"}
is_tase_indicator(indicator) == indicator \in {"1081124", "629014", "5138094", "126.81"}

\* the keys of data/indicator_international_symbols.json
international_vault == {"1081124"}

\* international_vault[indicator]['symbol']
vault_symbol(indicator) == CASE indicator = "1081124" -> "TEVA"

\* the indicators that have a row in security_list of the local security database
TASE_SECURITY_DB == {"629014"}

\* the column symbol of the row of an indicator in security_list
security_list_symbol(indicator) == CASE indicator = "629014" -> "ISRA.L"

\* find_YF_equivalent: row[1].replace('.','-') + ".TA"
yf_ticker(symbol) ==
    CASE symbol = "ISRA.L" -> "ISRA-L.TA"
      [] symbol = "TEVA" -> "TEVA.TA"

Range(s) == {s[j] : j \in 1..Len(s)}

\* the lists of at most MaxRequest indicators: _normalize_indicators keeps an
\* indicator that is named twice
Requests == UNION {[1..n -> Indicators] : n \in 1..MaxRequest}

\* _ATTR_ALIASES
ATTR_ALIASES ==
    {<< "name", "name" >>, << "briefsummary", "briefSummary" >>,
     << "brief_summary", "briefSummary" >>, << "summary", "briefSummary" >>,
     << "quotetype", "quoteType" >>, << "quote_type", "quoteType" >>, << "type", "quoteType" >>,
     << "currency", "currency" >>, << "price", "price" >>, << "last", "last" >>,
     << "close", "last" >>, << "open", "open" >>, << "high", "high" >>, << "low", "low" >>,
     << "volume", "volume" >>, << "vol", "volume" >>,
     << "avgdailyvolume3mnth", "avgDailyVolume3mnth" >>,
     << "avg_daily_volume_3mnth", "avgDailyVolume3mnth" >>,
     << "avgvolume", "avgDailyVolume3mnth" >>, << "change%", "change_pct" >>,
     << "change_pct", "change_pct" >>, << "change", "change_pct" >>,
     << "marketcap", "market_cap" >>, << "market_cap", "market_cap" >>,
     << "cap", "market_cap" >>, << "expenserate", "expense_rate" >>,
     << "expense_rate", "expense_rate" >>, << "expense", "expense_rate" >>,
     << "dividendyield", "dividendYield" >>, << "dividend_yield", "dividendYield" >>,
     << "dividend", "dividendYield" >>, << "yield", "dividendYield" >>,
     << "trailingpe", "trailingPE" >>, << "trailing_pe", "trailingPE" >>,
     << "pe", "trailingPE" >>, << "forwardpe", "forwardPE" >>, << "forward_pe", "forwardPE" >>,
     << "beta", "beta" >>}

\* the attribute names a caller gives: canonical names, aliases, a name in
\* capitals and a name the table does not hold
AttributeNames == {"price", "close", "Close", "last", "colour"}

\* _parse_attributes: key = a.strip().lower()
key_of_exact(a) == a
key_of(a) == IF a = "Close" THEN "close" ELSE a

\* _parse_attributes: `key not in _ATTR_ALIASES` for some name of the list
unsupported(raw) == \E j \in DOMAIN raw : \A e \in ATTR_ALIASES : e[1] # key_of(raw[j])

\* _parse_attributes: _ATTR_ALIASES[key], for a key of the table
canonical(key) == (CHOOSE e \in ATTR_ALIASES : e[1] = key)[2]

\* _parse_attributes: dedupe while preserving order
RECURSIVE dedupe(_, _)
dedupe(canon, out) ==
    IF canon = << >> THEN out
    ELSE dedupe(Tail(canon),
                IF \E j \in DOMAIN out : out[j] = Head(canon) THEN out
                ELSE Append(out, Head(canon)))

\* _parse_attributes, for a list whose names are all supported
parse_attributes(raw) == dedupe([j \in DOMAIN raw |-> canonical(key_of(raw[j]))], << >>)

\* the values a field of _indicator_data holds, written as Python writes them
default_value(field) ==
    CASE field = "name" -> "''"
      [] field = "beta" -> "0.0"
      [] field = "last" -> "0.0"

\* `value and value != 0 and value != 0.0 and value != "" and value != []`
truthy(value) == value \notin {"''", "0", "0.0", "None", "[]"}

\* isinstance(value, list)
isinstance_list(value) == value \in {"[]", "[150.0, 151.0]"}

\* _indicator_data.open, left at a float
open_float == 0

\* the dates of a fetched record: one per day of the range of the request
dates_of_range(len) == [j \in 1..2 |-> j]
dates_of(len) == [j \in 1..len |-> j]

\* the record a fetch of a quote leaves: name and last price set, beta not
quote(indicator, len) ==
    [indicator |-> indicator, name |-> "'Apple Inc.'", beta |-> "0.0", last |-> "150.0",
     dates |-> dates_of(len)]

\* the records a fetch can leave: each field at its default, at an empty value
\* that is not its default, or at a value
Records(indicator, len) ==
    {[indicator |-> indicator, name |-> n, beta |-> b, last |-> l, dates |-> dates_of(len)] :
        n \in {"''", "'Apple Inc.'"},
        b \in {"0.0", "None", "1.2"},
        l \in {"0.0", "150.0", "[]", "[150.0, 151.0]"}}

\* pd.Timestamp.utcnow().floor("D"), in days
today == 3

\* the truth value of a period: None and the empty string are false
truthy_period(p) == p \notin {"None", ""}

\* _parse_period: the periods the regular expression matches, and their days
valid_period(p) == p \in {"1d"}
period_days(p) == 1

\* _parse_date_like: the day of a time of day (floor("D")), None for None
parse_date_like_exact(d) == d
parse_date_like(d) == IF d = None THEN None ELSE d \div 2

\* _resolve_range: the ValueError of a period given with start or end, of an
\* invalid period and of a start after the end; the range otherwise
resolve_range_unordered(p, s, e) ==
    LET s_day == parse_date_like(s)
        e_day == parse_date_like(e)
    IN  IF truthy_period(p) /\ (s # None \/ e # None)
        THEN [raises |-> TRUE, start_ts |-> None, end_ts |-> None]
        ELSE IF truthy_period(p)
        THEN IF valid_period(p)
             THEN [raises |-> FALSE, start_ts |-> today - period_days(p), end_ts |-> today]
             ELSE [raises |-> TRUE, start_ts |-> None, end_ts |-> None]
        ELSE IF s_day # None \/ e_day # None
        THEN [raises |-> FALSE,
              start_ts |-> IF s_day = None THEN e_day ELSE s_day,
              end_ts |-> IF e_day = None THEN s_day ELSE e_day]
        ELSE [raises |-> FALSE, start_ts |-> None, end_ts |-> None]
resolve_range(p, s, e) ==
    LET s_day == parse_date_like(s)
        e_day == parse_date_like(e)
    IN  IF truthy_period(p) /\ (s # None \/ e # None)
        THEN [raises |-> TRUE, start_ts |-> None, end_ts |-> None]
        ELSE IF truthy_period(p)
        THEN IF valid_period(p)
             THEN [raises |-> FALSE, start_ts |-> today - period_days(p), end_ts |-> today]
             ELSE [raises |-> TRUE, start_ts |-> None, end_ts |-> None]
        ELSE IF s_day # None /\ e_day # None /\ s_day > e_day
        THEN [raises |-> TRUE, start_ts |-> None, end_ts |-> None]
        ELSE IF s_day # None \/ e_day # None
        THEN [raises |-> FALSE,
              start_ts |-> IF s_day = None THEN e_day ELSE s_day,
              end_ts |-> IF e_day = None THEN s_day ELSE e_day]
        ELSE [raises |-> FALSE, start_ts |-> None, end_ts |-> None]

\* fetcher_settings.__init__: data_length
data_length_of(s_ts, e_ts) == IF s_ts # None /\ e_ts # None THEN e_ts - s_ts + 1 ELSE 1

\* a request that was resolved to len days: no period, a start and an end
\* when it is a range
Resolved(len) ==
    /\ period = "None"
    /\ start = IF len = 1 THEN None ELSE 2
    /\ end = IF len = 1 THEN None ELSE 2 * len
    /\ start_ts = resolve_range(period, start, end).start_ts
    /\ end_ts = resolve_range(period, start, end).end_ts

\* fetcher_manager.__init__ with fetcher_settings.__init__
MgrInit ==
    /\ NoScheduler
    /\ NoFetch
    /\ NoDatabase
    /\ requested \in Requests
    /\ attributes_arg = << "price" >>
    /\ attributes = parse_attributes(attributes_arg)
    /\ DB_ENABLED \in BOOLEAN
    /\ cache_fresh \in SUBSET Range(requested)
    /\ data_length \in {1, 2}
    /\ Resolved(data_length)
    /\ fetched_record = [i \in Range(requested) |-> quote(i, data_length)]
    /\ indicators = requested
    /\ indicators_count = Len(requested)
    /\ cached_results = {}
    /\ requests = << >>
    /\ request_field = << >>
    /\ success = << >>
    /\ NEED_TASE = FALSE
    /\ taskList = << >>
    /\ result = << >>
    /\ cache_written = << >>
    /\ fetched_data = << >>
    /\ mpc = "check_cache"

inputVars == << requested, attributes_arg, attributes, DB_ENABLED, cache_fresh, fetched_record,
                data_length, period, start, end, start_ts, end_ts, yfVars >>

\* _check_cache: the indicators that are left to fetch
indicators_to_fetch ==
    LET miss(i) == i \notin cache_fresh IN SelectSeq(indicators, miss)

\* _check_cache
CheckCache ==
    /\ mpc = "check_cache"
    /\ IF ~DB_ENABLED
       THEN UNCHANGED << cached_results, indicators >>
       ELSE /\ cached_results' = Range(indicators) \cap cache_fresh
            /\ indicators' = indicators_to_fetch
    /\ mpc' = "classify"
    /\ UNCHANGED << dbVars, schedVars, inputVars, indicators_count, requests, request_field, success,
                    NEED_TASE, taskList, result, cache_written, fetched_data >>

\* _check_cache: get_cached_data raises on a row it cannot read back (json.loads,
\* _indicator_data(**data_dict), or the SELECT itself); nothing between the
\* store and the caller of managerRoutine catches it
CheckCacheRaises ==
    /\ mpc = "check_cache"
    /\ DB_ENABLED
    /\ indicators # << >>
    /\ mpc' = "CacheError"
    /\ UNCHANGED << dbVars, schedVars, inputVars, indicators, indicators_count, cached_results,
                    requests, request_field, success, NEED_TASE, taskList, result, cache_written,
                    fetched_data >>

\* classify_fetch_types on a list of indicators and a data length: has_tase,
\* is_historical, and the fetch type and the identifiers of one indicator
has_tase_indicators(inds) == \E j \in 1..Len(inds) : is_tase_indicator(inds[j])
is_historical_by_head(inds, len) == is_tase_indicator(inds[1]) /\ len > 1
is_historical_in(inds, len) == has_tase_indicators(inds) /\ len > 1
fetch_type_without_vault(inds, len, indicator) ==
    IF is_tase_indicator(indicator)
    THEN IF is_historical_in(inds, len) THEN "TASE_HISTORICAL" ELSE "TASE_FAST"
    ELSE "YFINANCE"
fetch_type_in(inds, len, indicator) ==
    IF is_tase_indicator(indicator)
    THEN IF indicator \in international_vault
         THEN "YFINANCE"
         ELSE IF is_historical_in(inds, len) THEN "TASE_HISTORICAL" ELSE "TASE_FAST"
    ELSE "YFINANCE"
request_of(indicator) ==
    [indicator |-> IF is_tase_indicator(indicator) /\ indicator \in international_vault
                   THEN vault_symbol(indicator) ELSE indicator,
     original_indicator |-> indicator]

\* classify_fetch_types: the dict it leaves in manager.requests
classified(inds, count, len) ==
    [i \in {inds[j] : j \in 1..count} |->
        [fetch_type |-> fetch_type_in(inds, len, i), request |-> request_of(i)]]

\* find_YF_equivalent on one entry of the dict: the row of request.indicator
\* in security_list, if there is one
yf_equivalent(entry) ==
    IF entry.request.indicator \in TASE_SECURITY_DB
    THEN [fetch_type |-> "YFINANCE",
          request |-> [entry.request EXCEPT
                          !.indicator = yf_ticker(security_list_symbol(entry.request.indicator))]]
    ELSE entry

\* classify_fetch_types: the fetch type of one indicator of the request
has_tase == has_tase_indicators(indicators)
is_historical == is_historical_in(indicators, data_length)
fetchType(indicator) == fetch_type_in(indicators, data_length, indicator)

\* classify_fetch_types: range(indicators_count) indexes the list of indicators
ClassifyFetchTypes ==
    /\ mpc = "classify"
    /\ IF indicators_count > Len(indicators)
       THEN /\ mpc' = "IndexError"
            /\ UNCHANGED << requests, request_field, success >>
       ELSE /\ requests' = [i \in {indicators[j] : j \in 1..indicators_count} |->
                              classified(indicators, indicators_count, data_length)[i].fetch_type]
            /\ request_field' = [i \in {indicators[j] : j \in 1..indicators_count} |->
                              classified(indicators, indicators_count, data_length)[i].request]
            /\ success' = [i \in {indicators[j] : j \in 1..indicators_count} |-> FALSE]
            /\ mpc' = "find_YF_equivalent"
    /\ UNCHANGED << dbVars, schedVars, inputVars, indicators, indicators_count, cached_results,
                    NEED_TASE, taskList, result, cache_written, fetched_data >>

\* classify_fetch_types: open() or json.load() of the remap table raises, before
\* the loop; manager.requests is assigned after the loop only
ClassifyFetchTypesRaises_assigned ==
    /\ mpc = "classify"
    /\ indicators_count <= Len(indicators)
    /\ requests' = [i \in {indicators[j] : j \in 1..indicators_count} |-> "NULL"]
    /\ mpc' = "FileNotFoundError"
    /\ UNCHANGED << dbVars, schedVars, inputVars, indicators, indicators_count, cached_results,
                    request_field, success, NEED_TASE, taskList, result, cache_written,
                    fetched_data >>
ClassifyFetchTypesRaises ==
    /\ mpc = "classify"
    /\ mpc' = "FileNotFoundError"
    /\ UNCHANGED << dbVars, schedVars, inputVars, indicators, indicators_count, cached_results,
                    requests, request_field, success, NEED_TASE, taskList, result, cache_written,
                    fetched_data >>

\* tase_specific_utils.find_YF_equivalent
find_YF_equivalent ==
    /\ mpc = "find_YF_equivalent"
    /\ requests' = [i \in DOMAIN requests |->
                       yf_equivalent([fetch_type |-> requests[i],
                                      request |-> request_field[i]]).fetch_type]
    /\ request_field' = [i \in DOMAIN requests |->
                       yf_equivalent([fetch_type |-> requests[i],
                                      request |-> request_field[i]]).request]
    /\ NEED_TASE' = ~(\E i \in DOMAIN requests : requests'[i] = "TASE")
    /\ mpc' = "create_task_list"
    /\ UNCHANGED << dbVars, schedVars, inputVars, indicators, indicators_count, cached_results,
                    success, taskList, result, cache_written, fetched_data >>

\* managerRoutine: if self.settings.NEED_TASE, get_tase_mtf_listing and
\* get_tase_company_listings initialise the listings of the exchange
listings_initialised == NEED_TASE

\* the keys of the dict manager.requests in insertion order: classify_fetch_types
\* assigns requests[indicators[i]] for each i, a key assigned again keeps its place
RECURSIVE dict_keys_of_list(_, _)
dict_keys_of_list(items, keys) ==
    IF items = << >> THEN keys
    ELSE dict_keys_of_list(Tail(items), Append(keys, Head(items)))
RECURSIVE dict_keys(_, _)
dict_keys(items, keys) ==
    IF items = << >> THEN keys
    ELSE dict_keys(Tail(items),
                   IF Head(items) \in Range(keys) THEN keys ELSE Append(keys, Head(items)))

\* create_task_list: the loop over manager.requests.items(), in insertion order
RECURSIVE build_tasks(_, _, _)
build_tasks(items, YF_BatchList, tasks) ==
    IF items = << >>
    THEN IF YF_BatchList # << >>
         THEN Append(tasks, [fetch_type |-> "YFINANCE", data |-> YF_BatchList])
         ELSE tasks
    ELSE LET i == Head(items) IN
         IF requests[i] = "YFINANCE" /\ Len(YF_BatchList) < YF_BATCH_SIZE
         THEN build_tasks(Tail(items), Append(YF_BatchList, i), tasks)
         ELSE IF requests[i] = "YFINANCE"
         THEN build_tasks(Tail(items), << >>,
                          Append(tasks, [fetch_type |-> "YFINANCE", data |-> YF_BatchList]))
         ELSE IF requests[i] \in {"TASE_FAST", "TASE_HISTORICAL"}
         THEN build_tasks(Tail(items), YF_BatchList,
                          Append(tasks, [fetch_type |-> requests[i], data |-> << i >>]))
         ELSE build_tasks(Tail(items), YF_BatchList, tasks)

\* fetchTask.__init__ calls setFetchFcn, which knows the fetch functions of
\* YFINANCE and of TASE and raises ValueError for every other fetch type
setFetchFcn(task_type) == task_type \in {"YFINANCE", "TASE"}

\* create_task_list: the tasks its loop asks for, in the order it asks for them
requested_tasks ==
    build_tasks(dict_keys(SubSeq(indicators, 1, indicators_count), << >>), << >>, << >>)

\* create_task_list, then taskScheduler(taskList); the ValueError of a
\* fetchTask that cannot be constructed ends create_task_list and managerRoutine
CreateTaskList ==
    /\ mpc = "create_task_list"
    /\ IF \A k \in DOMAIN requested_tasks : setFetchFcn(requested_tasks[k].fetch_type)
       THEN /\ taskList' = requested_tasks
            /\ result' = [k \in 1..Len(taskList') |-> "pending"]
            /\ mpc' = "run"
       ELSE /\ mpc' = "ValueError"
            /\ UNCHANGED << taskList, result >>
    /\ UNCHANGED << dbVars, schedVars, inputVars, indicators, indicators_count, cached_results,
                    requests, request_field, success, NEED_TASE, cache_written, fetched_data >>

\* the indicatorRequests a task carries
members(k) == Range(taskList[k].data)

\* fetchTask.execute: the fetch function returns, each request with its success
\* flag set or not, and prepare_results stores the requests as the result
FetchReturns(k) ==
    /\ mpc = "run"
    /\ result[k] = "pending"
    /\ \E flags \in [members(k) -> BOOLEAN] :
           success' = [i \in DOMAIN success |->
                          IF i \in members(k) THEN flags[i] ELSE success[i]]
    /\ result' = [result EXCEPT ![k] = "returned"]
    /\ UNCHANGED << dbVars, schedVars, inputVars, indicators, indicators_count, cached_results,
                    requests, request_field, NEED_TASE, taskList, cache_written, fetched_data, mpc >>

\* fetchTask.execute: the fetch function raises, the result stays the empty list
FetchRaises(k) ==
    /\ mpc = "run"
    /\ result[k] = "pending"
    /\ result' = [result EXCEPT ![k] = "raised"]
    /\ UNCHANGED << dbVars, schedVars, inputVars, indicators, indicators_count, cached_results,
                    requests, request_field, success, NEED_TASE, taskList, cache_written, fetched_data, mpc >>

\* scheduler.run() returns: every task has ended
RunReturns ==
    /\ mpc = "run"
    /\ \A k \in DOMAIN result : result[k] # "pending"
    /\ mpc' = "cache_fetched_data"
    /\ UNCHANGED << dbVars, schedVars, inputVars, indicators, indicators_count, cached_results,
                    requests, request_field, success, NEED_TASE, taskList, result, cache_written,
                    fetched_data >>

\* scheduler.run() raises the TimeoutError of execute(), managerRoutine ends with it
RunTimesOut ==
    /\ mpc = "run"
    /\ \E k \in DOMAIN result : result[k] = "pending"
    /\ mpc' = "TimeoutError"
    /\ UNCHANGED << dbVars, schedVars, inputVars, indicators, indicators_count, cached_results,
                    requests, request_field, success, NEED_TASE, taskList, result, cache_written,
                    fetched_data >>

\* fetchTask.get_results of every task, unfolded
task_results == UNION {members(k) : k \in {j \in DOMAIN result : result[j] = "returned"}}

\* _cache_fetched_data: `if not res.success: continue`
results_to_cache_all == task_results
results_to_cache == {i \in task_results : success[i]}

\* _cache_fetched_data: the fields handed to cache_indicator_data
fetched_fields(data) ==
    {f \in DOMAIN data \ {"indicator", "dates"} : truthy(data[f])}

\* _cache_fetched_data: table indicators after cache_indicator_data of the
\* results in written
indicators_after(written) ==
    [i \in DOMAIN indicators_table \cup written |->
        IF i \in written THEN row_after_write(i, fetched_fields(fetched_record[i]))
        ELSE indicators_table[i]]

\* _cache_fetched_data: table price_history after cache_historical_data of the
\* results in written that carry a list of closing prices over several dates;
\* data.open is a float, the list is [data.open] * len(data.dates)
RECURSIVE history_after(_, _)
history_after(written, table) ==
    IF written = {} THEN table
    ELSE LET i == CHOOSE j \in written : TRUE
             data == fetched_record[i]
         IN history_after(written \ {i},
                IF Len(data.dates) > 1 /\ isinstance_list(data.last)
                THEN executemany(table,
                         prepared_rows(i, data.dates, [j \in 1..Len(data.dates) |-> open_float]))
                ELSE table)

\* _cache_fetched_data with the results in written handed to the store
cached(written) ==
    /\ cache_written' = [i \in written |-> fetched_fields(fetched_record[i])]
    /\ connection' = TRUE
    /\ indicators_table' = indicators_after(written)
    /\ price_history' = history_after(written, price_history)

\* _cache_fetched_data
CacheFetchedData ==
    /\ mpc = "cache_fetched_data"
    /\ IF DB_ENABLED THEN cached(results_to_cache)
       ELSE UNCHANGED << cache_written, connection, indicators_table, price_history >>
    /\ mpc' = "aggregate"
    /\ UNCHANGED << now, lookup, history, schedVars, inputVars, indicators, indicators_count,
                    cached_results, requests, request_field, success, NEED_TASE, taskList,
                    result, fetched_data >>

\* _cache_fetched_data: cache_indicator_data raises on data it cannot write
\* (json.dumps, or the UPDATE / INSERT itself) after the results before it
\* were written; nothing catches it
CacheFetchedDataRaises ==
    /\ mpc = "cache_fetched_data"
    /\ DB_ENABLED
    /\ \E i \in results_to_cache :
           \E written \in SUBSET (results_to_cache \ {i}) : cached(written)
    /\ mpc' = "CacheError"
    /\ UNCHANGED << now, lookup, history, schedVars, inputVars, indicators, indicators_count,
                    cached_results, requests, request_field, success, NEED_TASE, taskList,
                    result, fetched_data >>

\* aggregate_task_results: the keys of the map of results
results == cached_results \cup task_results

\* aggregate_task_results: parsedInput has no _original_indicators, getattr
\* falls back to parsedInput.indicators
original_indicators == indicators

\* aggregate_task_results: the columns of the table
ordered_results ==
    LET in_results(i) == i \in results IN SelectSeq(original_indicators, in_results)

\* aggregate_task_results
AggregateTaskResults ==
    /\ mpc = "aggregate"
    /\ fetched_data' = ordered_results
    /\ mpc' = "done"
    /\ UNCHANGED << dbVars, schedVars, inputVars, indicators, indicators_count, cached_results,
                    requests, request_field, success, NEED_TASE, taskList, result, cache_written >>

\* aggregate_task_results: the column labels of fetched_data, one block of
\* (original_indicator, attribute) per result in ordered_results
RECURSIVE columns_of(_, _)
columns_of(ordered, requested_attrs) ==
    IF ordered = << >> THEN << >>
    ELSE [j \in 1..Len(requested_attrs) |-> << Head(ordered), requested_attrs[j] >>]
             \o columns_of(Tail(ordered), requested_attrs)
columns == columns_of(fetched_data, attributes)

\* aggregate_task_results: the index of fetched_data, the dates of the blocks
\* that pd.concat(axis=1) joins
index == UNION {Range(fetched_record[i].dates) : i \in Range(fetched_data)}

MgrNext ==
    \/ CheckCache
    \/ CheckCacheRaises
    \/ ClassifyFetchTypes
    \/ ClassifyFetchTypesRaises
    \/ find_YF_equivalent
    \/ CreateTaskList
    \/ \E k \in DOMAIN result : FetchReturns(k)
    \/ \E k \in DOMAIN result : FetchRaises(k)
    \/ RunReturns
    \/ RunTimesOut
    \/ CacheFetchedData
    \/ CacheFetchedDataRaises
    \/ AggregateTaskResults

ManagerSpec == MgrInit /\ [][MgrNext]_vars

\* the instruments of the requests whose fetched records are followed into the store
WriteIds == {"AAPL", "MSFT"}

\* the requests of one or two indicators over WriteIds
QuoteRequests == {r \in Requests : Len(r) <= 2 /\ Range(r) \subseteq WriteIds}

\* the requests over WriteIds, no instrument twice
WriteRequests == {r \in QuoteRequests : Cardinality(Range(r)) = Len(r)}

\* a row of table indicators written on day 0 with every tier fetched
row_of_day_0 ==
    [immutable_fetched_at |-> 0, longterm_fetched_at |-> 0, medium_fetched_at |-> 0,
     short_fetched_at |-> 0, last_fetched_at |-> 0]

\* managerRoutine on day 1, over a store that is empty or holds rows of day 0
\* that no longer answer the request; the fetches leave any of Records
WriteInit ==
    /\ NoScheduler
    /\ NoFetch
    /\ connection = FALSE
    /\ now = 1
    /\ indicators_table \in {<< >>, [i \in WriteIds |-> row_of_day_0]}
    /\ price_history = {}
    /\ lookup = << >>
    /\ history = << >>
    /\ requested \in WriteRequests
    /\ attributes_arg = << "price" >>
    /\ attributes = parse_attributes(attributes_arg)
    /\ DB_ENABLED \in BOOLEAN
    /\ cache_fresh = {}
    /\ data_length \in {1, 2}
    /\ Resolved(data_length)
    /\ fetched_record \in [Range(requested) -> UNION {Records(i, data_length) : i \in WriteIds}]
    /\ \A i \in Range(requested) : fetched_record[i].indicator = i
    /\ indicators = requested
    /\ indicators_count = Len(requested)
    /\ cached_results = {}
    /\ requests = << >>
    /\ request_field = << >>
    /\ success = << >>
    /\ NEED_TASE = FALSE
    /\ taskList = << >>
    /\ result = << >>
    /\ cache_written = << >>
    /\ fetched_data = << >>
    /\ mpc = "check_cache"

WriteSpec == WriteInit /\ [][MgrNext]_vars

\* the lists of attribute names a caller gives
AttributeArgs == UNION {[1..n -> AttributeNames] : n \in 0..MaxAttributes}

\* the ranges a caller gives: no period, an empty, a valid and an invalid one;
\* no start or end, the morning and the afternoon of day 1, the morning of day 2
RangeArgs == {"None", "", "1d", "1x"} \X {None, 2, 3, 4} \X {None, 2, 3, 4}

\* point in time, and the two days from day 1 to day 2
QuoteRanges == {<< "None", None, None >>, << "None", 2, 4 >>}

\* the number of days the fetch of a range returns
days_of(range) ==
    LET r == resolve_range(range[1], range[2], range[3])
    IN  IF r.raises THEN 1 ELSE data_length_of(r.start_ts, r.end_ts)

\* fetchData is called: nothing is parsed yet and no manager exists
fetchData(Ranges, Indicator_lists, Attribute_lists) ==
    /\ NoScheduler
    /\ NoFetch
    /\ NoDatabase
    /\ requested \in Indicator_lists
    /\ attributes_arg \in Attribute_lists
    /\ attributes = << >>
    /\ DB_ENABLED \in BOOLEAN
    /\ cache_fresh = {}
    /\ \E range \in Ranges :
           /\ period = range[1]
           /\ start = range[2]
           /\ end = range[3]
    /\ start_ts = None
    /\ end_ts = None
    /\ data_length = 0
    /\ fetched_record = [i \in Range(requested) |-> quote(i, days_of(<< period, start, end >>))]
    /\ indicators = requested
    /\ indicators_count = Len(requested)
    /\ cached_results = {}
    /\ requests = << >>
    /\ request_field = << >>
    /\ success = << >>
    /\ NEED_TASE = FALSE
    /\ taskList = << >>
    /\ result = << >>
    /\ cache_written = << >>
    /\ fetched_data = << >>
    /\ mpc = "fetchData"

RequestInit == fetchData(QuoteRanges, QuoteRequests, AttributeArgs)

\* fetchData up to its call of managerRoutine: _fetchRequest.__init__ parses
\* the attributes and resolves the range, raising the ValueError of
\* _parse_attributes or of _resolve_range, or the manager and its settings
\* are constructed
FetchRequest ==
    /\ mpc = "fetchData"
    /\ IF unsupported(attributes_arg)
       THEN /\ mpc' = "Unsupported attribute"
            /\ UNCHANGED << attributes, start_ts, end_ts, data_length >>
       ELSE IF resolve_range(period, start, end).raises
       THEN /\ mpc' = "Invalid range"
            /\ UNCHANGED << attributes, start_ts, end_ts, data_length >>
       ELSE /\ attributes' = parse_attributes(attributes_arg)
            /\ start_ts' = resolve_range(period, start, end).start_ts
            /\ end_ts' = resolve_range(period, start, end).end_ts
            /\ data_length' = data_length_of(start_ts', end_ts')
            /\ mpc' = "check_cache"
    /\ UNCHANGED << dbVars, schedVars, requested, attributes_arg, DB_ENABLED, cache_fresh,
                    fetched_record, period, start, end, indicators, indicators_count,
                    cached_results, requests, request_field, success, NEED_TASE, taskList,
                    result, cache_written, fetched_data, yfVars >>

RequestNext ==
    \/ FetchRequest
    \/ MgrNext

RequestSpec == RequestInit /\ [][RequestNext]_vars

\* the requests of one instrument for one attribute, over every range
RangeInit ==
    fetchData(RangeArgs, {<< "AAPL" >>, << "5138094" >>}, {<< "price" >>, << "colour" >>})

RangeSpec == RangeInit /\ [][RequestNext]_vars

\* identifiers of every format: letters, digits, the prefix "126.", and
\* "126." past the first character
FormatIds == {"AAPL", "A126.8", "126.81", "5138094", "1081124", "629014"}

\* the requests of one or two of them
FormatRequests == UNION {[1..n -> FormatIds] : n \in 1..2}

\* managerRoutine on a request over FormatIds, nothing in the cache
ClassifyInit ==
    /\ NoScheduler
    /\ NoFetch
    /\ NoDatabase
    /\ requested \in FormatRequests
    /\ attributes_arg = << "price" >>
    /\ attributes = parse_attributes(attributes_arg)
    /\ DB_ENABLED \in BOOLEAN
    /\ cache_fresh = {}
    /\ data_length \in {1, 2}
    /\ Resolved(data_length)
    /\ fetched_record = [i \in Range(requested) |-> quote(i, data_length)]
    /\ indicators = requested
    /\ indicators_count = Len(requested)
    /\ cached_results = {}
    /\ requests = << >>
    /\ request_field = << >>
    /\ success = << >>
    /\ NEED_TASE = FALSE
    /\ taskList = << >>
    /\ result = << >>
    /\ cache_written = << >>
    /\ fetched_data = << >>
    /\ mpc = "check_cache"

ClassifySpec == ClassifyInit /\ [][MgrNext]_vars

\* bound: the longest request given to the task builder alone, past one full
\* batch of YF_BATCH_SIZE
MaxBatchRequest == 36

\* the classified requests the task builder is given: instruments numbered in
\* the order of the request, all of fetch type YFINANCE but at most one
BatchRequests ==
    UNION {{[j \in 1..n |-> IF j = k THEN ty ELSE "YFINANCE"] :
               k \in 0..n, ty \in {"TASE_FAST", "TASE_HISTORICAL"}} :
           n \in 0..MaxBatchRequest}

\* managerRoutine at its call of create_task_list, after classify_fetch_types
\* and find_YF_equivalent, without a cache
BatchInit ==
    /\ NoScheduler
    /\ NoFetch
    /\ NoDatabase
    /\ requests \in BatchRequests
    /\ indicators = [j \in DOMAIN requests |-> j]
    /\ requested = indicators
    /\ attributes_arg = << "price" >>
    /\ attributes = parse_attributes(attributes_arg)
    /\ indicators_count = Len(indicators)
    /\ request_field = [j \in DOMAIN requests |-> [indicator |-> j, original_indicator |-> j]]
    /\ success = [j \in DOMAIN requests |-> FALSE]
    /\ DB_ENABLED = FALSE
    /\ cache_fresh = {}
    /\ fetched_record = << >>
    /\ data_length \in {1, 2}
    /\ Resolved(data_length)
    /\ cached_results = {}
    /\ NEED_TASE = FALSE
    /\ taskList = << >>
    /\ result = << >>
    /\ cache_written = << >>
    /\ fetched_data = << >>
    /\ mpc = "create_task_list"

BatchNext == CreateTaskList

BatchSpec == BatchInit /\ [][BatchNext]_vars

(* ======================= fetchers/fetch_yfinance.py ======================= *)

MAX_YF_ATTEMPTS == 6

\* bound: the most requests of one container
MaxYfRequests == 3

\* for attempt in range(const.MAX_YF_ATTEMPTS)
in_range_inclusive(a) == a <= MAX_YF_ATTEMPTS
in_range(a) == a < MAX_YF_ATTEMPTS

\* remaining_requests = [req for req in container.requests if not req.success]
unsuccessful(flags) == {r \in DOMAIN flags : ~flags[r]}

\* the loop over allSymbols: the symbols before place stop have been handled,
\* each by process_successful_request or try_inception_date, which leave the
\* success flag of the matched request as new gives it
processed(flags, allSymbols, stop, new) ==
    [r \in DOMAIN flags |-> IF r \in allSymbols /\ r < stop THEN new[r] ELSE flags[r]]

\* fetch_yfinance at its loop: the target dates are parsed, the success flags
\* are lowered and every request of the container remains
YfInit ==
    /\ NoScheduler
    /\ NoRequest
    /\ DB_ENABLED = FALSE
    /\ NoDatabase
    /\ \E n \in 1..MaxYfRequests :
           /\ container = [requests |-> [r \in 1..n |-> FALSE], success |-> FALSE]
           /\ remaining_requests = 1..n
    /\ attempt = 0
    /\ downloads = 0
    /\ ypc = "attempt"

\* an attempt that ends at yf.Tickers raising: no download is made
TickersRaises ==
    /\ ypc = "attempt"
    /\ in_range(attempt)
    /\ remaining_requests # {}
    /\ container' = [container EXCEPT !.success = FALSE]
    /\ attempt' = attempt + 1
    /\ UNCHANGED << schedVars, dbVars, routineVars, remaining_requests, downloads, ypc >>

\* an attempt whose yf.download raises or returns nothing, an empty frame or
\* a frame without the required columns
DownloadFails ==
    /\ ypc = "attempt"
    /\ in_range(attempt)
    /\ remaining_requests # {}
    /\ downloads' = downloads + 1
    /\ container' = [container EXCEPT !.success = FALSE]
    /\ attempt' = attempt + 1
    /\ UNCHANGED << schedVars, dbVars, routineVars, remaining_requests, ypc >>

\* an attempt whose download holds the columns of allSymbols, all handled:
\* remaining_requests is computed anew
DownloadProcessed(allSymbols, new) ==
    /\ ypc = "attempt"
    /\ in_range(attempt)
    /\ remaining_requests # {}
    /\ allSymbols \subseteq remaining_requests
    /\ downloads' = downloads + 1
    /\ container' = [container EXCEPT
                         !.requests = processed(container.requests, allSymbols,
                                                MaxYfRequests + 2, new)]
    /\ remaining_requests' = unsuccessful(container'.requests)
    /\ attempt' = attempt + 1
    /\ UNCHANGED << schedVars, dbVars, routineVars, ypc >>

\* an attempt whose handling of the symbol at place stop raises: the symbols
\* before it have been handled, the except clause lowers container.success and
\* remaining_requests stays as it was
DownloadProcessedRaises(allSymbols, stop, new) ==
    /\ ypc = "attempt"
    /\ in_range(attempt)
    /\ remaining_requests # {}
    /\ allSymbols \subseteq remaining_requests
    /\ stop \in allSymbols
    /\ downloads' = downloads + 1
    /\ container' = [requests |-> processed(container.requests, allSymbols, stop, new),
                     success |-> FALSE]
    /\ attempt' = attempt + 1
    /\ UNCHANGED << schedVars, dbVars, routineVars, remaining_requests, ypc >>

\* the loop ends, by its break or after its last attempt, and fetch_yfinance
\* sets container.success and returns
YfReturn ==
    /\ ypc = "attempt"
    /\ remaining_requests = {} \/ ~in_range(attempt)
    /\ container' = [container EXCEPT !.success = (remaining_requests = {})]
    /\ ypc' = "done"
    /\ UNCHANGED << schedVars, dbVars, routineVars, remaining_requests, attempt, downloads >>

\* the success flags the handling of the symbols can leave
NewFlags == [1..MaxYfRequests -> BOOLEAN]

YfNext ==
    \/ TickersRaises
    \/ DownloadFails
    \/ \E allSymbols \in SUBSET (1..MaxYfRequests) : \E new \in NewFlags :
           DownloadProcessed(allSymbols, new)
    \/ \E allSymbols \in SUBSET (1..MaxYfRequests) : \E stop \in 1..MaxYfRequests :
           \E new \in NewFlags : DownloadProcessedRaises(allSymbols, stop, new)
    \/ YfReturn

YfSpec == YfInit /\ [][YfNext]_vars

(* ======================= properties ======================= *)

\* a task holds the slot of its variant from create_task to the end of its finally block
HoldsSlot(t) == tpc[t] \in {"created", "dispatch"}
IsYF(task_type) == task_type = "YFINANCE"
ExecutingYF == {t \in Submitted : HoldsSlot(t) /\ IsYF(fetch_type[t])}
ExecutingTASE == {t \in Submitted : HoldsSlot(t) /\ IsTASE(fetch_type[t])}

\* the slot taken by check_task_status for the head while execute() sleeps before the launch
ReservedYF == IF pc = "delay" /\ IsYF(fetch_type[Head(queue)]) THEN 1 ELSE 0
ReservedTASE == IF pc = "delay" /\ IsTASE(fetch_type[Head(queue)]) THEN 1 ELSE 0

RECURSIVE SumMem(_)
SumMem(S) == IF S = {} THEN 0
             ELSE LET t == CHOOSE x \in S : TRUE
                  IN est_mem_req_bytes(t) + SumMem(S \ {t})

\* the declared memory of the tasks in flight
MemInFlight == SumMem({t \in Submitted : HoldsSlot(t)})

\* the two result collections execute() counts before it returns
successful_tasks == {t \in completed_tasks : state[t] = "COMPLETED"}
failed_tasks == {t \in completed_tasks : state[t] = "FAILED"}

C3_CancelReleased ==
    \E t \in Submitted : tpc[t] = "finished" /\ state[t] = "RUNNING"

C5_EventuallyReturns == <>(pc = "returned" \/ ~resources_free)

\* the task's retry budget the claim speaks of
retries == MAX_ATTEMPTS - 1

CacheHits == IF DB_ENABLED THEN Range(requested) \cap cache_fresh ELSE {}

\* the instruments a fetch brought data for
FetchedFresh == {i \in task_results : success[i]}

\* the instruments whose fetch failed: the fetch function raised, or it
\* returned with the success flag of the request not set
FetchFailed ==
    {i \in DOMAIN requests :
        \E k \in DOMAIN result :
            /\ i \in members(k)
            /\ result[k] = "raised" \/ (result[k] = "returned" /\ ~success[i])}

\* s lists its elements in the order the request has them
InRequestOrder(s) ==
    LET kept(i) == i \in Range(s) IN s = SelectSeq(requested, kept)

\* C9: whatever the partition into cache hits and fresh results and whatever
\* the order the tasks end in, managerRoutine ends with a table that lists the
\* instruments having a result in the order of the caller's request.
C9_OriginalOrder ==
    mpc \in {"done", "IndexError"} =>
        /\ mpc = "done"
        /\ InRequestOrder(fetched_data)
        /\ CacheHits \cup FetchedFresh \subseteq Range(fetched_data)

\* C10: an instrument whose fetch failed and that has no fresh cache hit is
\* not a column of the final table.
C10_FailedOmitted ==
    mpc = "done" =>
        \A i \in FetchFailed \ CacheHits : i \notin Range(fetched_data)

(* ---------------- the freshness of cached attributes ---------------- *)

\* the TTL tier that governs an attribute, and the tier's TTL in days
TierColumn(attr) ==
    IF attr \in IMMUTABLE_FIELDS THEN "immutable_fetched_at"
    ELSE IF attr \in LONGTERM_TTL_FIELDS THEN "longterm_fetched_at"
    ELSE IF attr \in MEDIUM_TTL_FIELDS THEN "medium_fetched_at"
    ELSE IF attr \in SHORT_TTL_FIELDS THEN "short_fetched_at"
    ELSE "none"
TierTTL(attr) ==
    IF attr \in LONGTERM_TTL_FIELDS THEN LONGTERM_TTL_DAYS
    ELSE IF attr \in MEDIUM_TTL_FIELDS THEN MEDIUM_TTL_DAYS
    ELSE SHORT_TTL_DAYS

\* a lookup has returned and its answer is with the caller
Answered == lookup # << >>

\* the row the answered lookup has read, and the refresh time of an attribute's tier
RowRead == indicators_table[lookup.indicator]
LastRefresh(attr) == RowRead[TierColumn(attr)]

\* an attribute is fresh under its tier at the time of the lookup
AttrFresh(attr) ==
    /\ lookup.cached_data
    /\ TierColumn(attr) # "none"
    /\ LastRefresh(attr) # None
    /\ TierColumn(attr) = "immutable_fetched_at" \/ lookup.at - LastRefresh(attr) <= TierTTL(attr)

Requested == Range(lookup.requested_attributes)

\* C11: a lookup answers fresh only if every requested attribute is fresh
\* under its tier; an instrument with a stale requested attribute is answered
\* stale and goes on the fetch list as a whole.
C11_FreshOnlyIfAllFresh ==
    Answered =>
        /\ lookup.is_fresh => \A a \in Requested : AttrFresh(a)
        /\ (\E a \in Requested : ~AttrFresh(a)) => ~lookup.is_fresh /\ lookup.to_fetch
C11_Witness ==
    /\ Answered
    /\ Len(lookup.requested_attributes) = 2
    /\ AttrFresh(lookup.requested_attributes[1])
    /\ TierColumn(lookup.requested_attributes[2]) # "none"
    /\ ~AttrFresh(lookup.requested_attributes[2])
    /\ lookup.to_fetch

\* C12: an attribute of the long-, medium- or short-term tier is fresh exactly
\* when its tier has a refresh timestamp and now - last_refresh <= the TTL of
\* the tier, the boundary included.
C12_FreshWithinTTL ==
    Answered =>
        \A a \in LONGTERM_TTL_FIELDS \cup MEDIUM_TTL_FIELDS \cup SHORT_TTL_FIELDS :
            lookup.requested_attributes = << a >> /\ lookup.cached_data =>
                (lookup.is_fresh <=>
                    /\ LastRefresh(a) # None
                    /\ lookup.at - LastRefresh(a) <= TierTTL(a))
C12_Witness ==
    /\ Answered
    /\ lookup.requested_attributes = << "name" >>
    /\ lookup.is_fresh
    /\ lookup.at - LastRefresh("name") = LONGTERM_TTL_DAYS

\* C13: an attribute of the immutable tier is fresh if and only if the
\* immutable timestamp of the instrument was ever set, however long ago.
C13_ImmutableNeverExpires ==
    Answered =>
        \A a \in IMMUTABLE_FIELDS :
            lookup.requested_attributes = << a >> =>
                (lookup.is_fresh <=>
                    lookup.cached_data /\ RowRead.immutable_fetched_at # None)
C13_Witness ==
    /\ Answered
    /\ lookup.requested_attributes = << "ISIN" >>
    /\ lookup.is_fresh
    /\ lookup.at - RowRead.immutable_fetched_at > LONGTERM_TTL_DAYS

\* C14: a lookup that names an attribute of none of the four tiers (a price
\* field) is never answered fresh, so the instrument is fetched again.
C14_PriceAlwaysStale ==
    Answered =>
        ((\E a \in Requested : a \in PRICE_FIELDS) => ~lookup.is_fresh /\ lookup.to_fetch)
C14_Witness ==
    /\ Answered
    /\ lookup.requested_attributes = << "name", "price" >>
    /\ AttrFresh("name")
    /\ ~lookup.is_fresh

TierFields(column) ==
    IF column = "immutable_fetched_at" THEN IMMUTABLE_FIELDS
    ELSE IF column = "longterm_fetched_at" THEN LONGTERM_TTL_FIELDS
    ELSE IF column = "medium_fetched_at" THEN MEDIUM_TTL_FIELDS
    ELSE SHORT_TTL_FIELDS
TierColumns == {"immutable_fetched_at", "longterm_fetched_at", "medium_fetched_at",
                "short_fetched_at"}

\* C16: a write advances the timestamp of a tier if and only if the fetched
\* fields contain a field of that tier; every other tier of the instrument
\* keeps its timestamp, or stays unset when the row is inserted.
C16_WriteAdvancesFetchedTiers ==
    [][indicators_table' # indicators_table =>
       \A i \in CacheIds : \A F \in FetchedFieldSets :
          CacheIndicatorData(i, F) =>
              \A c \in TierColumns :
                  IF F \cap TierFields(c) # {}
                  THEN indicators_table'[i][c] = now
                  ELSE indicators_table'[i][c] =
                           IF i \in DOMAIN indicators_table THEN indicators_table[i][c]
                           ELSE None]_vars
C16_Witness ==
    /\ "AAPL" \in DOMAIN indicators_table
    /\ indicators_table["AAPL"].longterm_fetched_at = 0
    /\ indicators_table["AAPL"].short_fetched_at = SHORT_TTL_DAYS + 1
    /\ indicators_table["AAPL"].immutable_fetched_at = None

\* C17: an error of the store or of the (de)serialization during a cache lookup
\* or a cache write never ends the request: managerRoutine never stops with it
C17_CacheErrorNeverFatal == mpc # "CacheError"

\* the rows of one instrument and date
SameKey(r, q) == r.indicator = q.indicator /\ r.date = q.date

LastWritten(dates, j) == \A k \in DOMAIN dates : dates[k] = dates[j] => k <= j

\* C19: the table of the time series never holds two rows of one instrument
\* and date; whatever write comes next, it leaves under each key it names the
\* one row with the values it was given last for that key, and keeps the rows
\* of the other keys, so that a read returns the values written last
C19_OneRowPerKey ==
    /\ \A r, q \in price_history : SameKey(r, q) => r = q
    /\ history # << >> => \A p, q \in history.rows : p.date = q.date => p = q
    /\ (Idle /\ DB_ENABLED) =>
           \A i \in HistoryIds : \A ds \in DateLists : \A os \in OpenLists :
               LET after == table_after_write(i, ds, os) IN
               /\ \A r, q \in after : SameKey(r, q) => r = q
               /\ \A j \in DOMAIN ds :
                      LastWritten(ds, j) =>
                          [indicator |-> i, date |-> ds[j],
                           open |-> IF j <= Len(os) THEN os[j] ELSE None] \in after
               /\ \A r \in price_history :
                      (r.indicator # i \/ r.date \notin Range(ds)) => r \in after

\* every key of both instruments holds its one row after the writes, and the
\* row of one date is read back
C19_Witness ==
    /\ history # << >>
    /\ history.start_date = history.end_date
    /\ \E p \in history.rows : p.open = 11
    /\ Cardinality(price_history) = 2 * MaxDate

\* create_task_list: the instruments of fetch type YFINANCE and the tasks built for them
BatchableCount == Cardinality({i \in DOMAIN requests : requests[i] = "YFINANCE"})
BatchTasks == LET is_batch(t) == t.fetch_type = "YFINANCE" IN SelectSeq(taskList, is_batch)

\* C20: n instruments of the batchable source give ceil(n / YF_BATCH_SIZE)
\* batch tasks, each but the last of YF_BATCH_SIZE instruments, the last of
\* the remainder
C20_BatchSizes ==
    mpc = "run" =>
        /\ Len(BatchTasks) = (BatchableCount + YF_BATCH_SIZE - 1) \div YF_BATCH_SIZE
        /\ \A k \in DOMAIN BatchTasks :
               Len(BatchTasks[k].data) =
                   IF k < Len(BatchTasks) THEN YF_BATCH_SIZE
                   ELSE BatchableCount - YF_BATCH_SIZE * (Len(BatchTasks) - 1)

(* ---------------- the tasks of one request ---------------- *)

\* the places of the built tasks: task k, entry j of its list of requests
TaskPlaces == UNION {{<< k, j >> : j \in DOMAIN taskList[k].data} : k \in DOMAIN taskList}

\* the places that hold the request of an indicator
PlacesOf(indicator) == {p \in TaskPlaces : taskList[p[1]].data[p[2]] = indicator}

\* C21: an instrument of the request is in at most one built task and at most
\* once in that task, also when the request names it more than once
C21_FetchedAtMostOnce == \A i \in Indicators : Cardinality(PlacesOf(i)) <= 1

\* the request names an instrument twice and the tasks are built: the
\* instrument is in one place
C21_Witness ==
    /\ mpc = "run"
    /\ \E a, b \in DOMAIN requested :
           /\ a # b
           /\ requested[a] = requested[b]
           /\ Cardinality(PlacesOf(requested[a])) = 1

\* the instruments classified to a fetch type of the exchange, one task each
NonBatchable == {i \in DOMAIN requests : requests[i] \in TASE_types}

\* C22: when create_task_list has ended, every instrument that is classified
\* to a fetch type of the exchange has exactly one task, which holds that
\* instrument alone
C22_OneTaskPerNonBatchable ==
    mpc \in {"run", "ValueError"} =>
        \A i \in NonBatchable :
            /\ Cardinality(PlacesOf(i)) = 1
            /\ \A p \in PlacesOf(i) : taskList[p[1]].data = << i >>

(* ---------------- the classification ---------------- *)

C24_RemappedIsGeneral ==
    \A i \in DOMAIN requests :
        (is_tase_indicator(i) /\ i \in international_vault) =>
            /\ requests[i] = "YFINANCE"
            /\ request_field[i].indicator = vault_symbol(i)
            /\ request_field[i].original_indicator = i

\* the tasks are built and a remapped identifier is in a batch of the general provider
C24_Witness ==
    /\ mpc = "run"
    /\ \E i \in DOMAIN requests :
           /\ is_tase_indicator(i)
           /\ i \in international_vault
           /\ \E p \in PlacesOf(i) : taskList[p[1]].fetch_type = "YFINANCE"

\* the results of the run whose fetch succeeded, and the fields of a record
\* that carry a value: neither the default of the field nor an empty value
Succeeded == {i \in task_results : success[i]}
Carried(data) ==
    {f \in DOMAIN data \ {"indicator", "dates"} :
        data[f] # default_value(f) /\ data[f] \notin {"None", "[]"}}

\* the row of an instrument in table indicators, None where it has none
RowOf(table, i) == IF i \in DOMAIN table THEN table[i] ELSE None

\* C25, as the spec words it: the write path is called for the instruments
\* whose fetch succeeded, each with exactly the fields whose value is not the
\* default of the field
C25_NonDefaultFields ==
    [][(mpc = "cache_fetched_data" /\ mpc' = "aggregate" /\ DB_ENABLED) =>
           /\ DOMAIN cache_written' = Succeeded
           /\ \A i \in Succeeded :
                  cache_written'[i] =
                      {f \in DOMAIN fetched_record[i] \ {"indicator", "dates"} :
                          fetched_record[i][f] # default_value(f)}]_vars

\* C25, amended: when _cache_fetched_data ends, the write path was called for
\* the instruments whose fetch succeeded and no other, each with exactly the
\* fields (other than indicator and dates) that carry a value that is neither
\* the default nor empty; an instrument whose fetch failed is not written: its
\* row, TTL timestamps included, and its rows of price_history are as before
C25_WritesOnlyFetched ==
    [][(mpc = "cache_fetched_data" /\ mpc' # mpc) =>
           /\ DOMAIN cache_written' \subseteq Succeeded
           /\ (mpc' = "aggregate" /\ DB_ENABLED) => DOMAIN cache_written' = Succeeded
           /\ \A i \in DOMAIN cache_written' :
                  cache_written'[i] = Carried(fetched_record[i])
           /\ \A i \in Indicators \ Succeeded :
                  /\ RowOf(indicators_table', i) = RowOf(indicators_table, i)
                  /\ {r \in price_history' : r.indicator = i}
                         = {r \in price_history : r.indicator = i}]_vars

\* one instrument was written with a field left out for being empty, the
\* other failed with a full record and kept its row of day 0
C25_Witness ==
    /\ mpc = "aggregate"
    /\ DB_ENABLED
    /\ DOMAIN cache_written = {"AAPL"}
    /\ fetched_record["AAPL"].beta = "None"
    /\ cache_written["AAPL"] = {"name", "last"}
    /\ indicators_table["AAPL"].longterm_fetched_at = now
    /\ indicators_table["AAPL"].short_fetched_at = 0
    /\ "MSFT" \in DOMAIN fetched_record
    /\ "MSFT" \in DOMAIN success /\ ~success["MSFT"]
    /\ truthy(fetched_record["MSFT"].name)
    /\ indicators_table["MSFT"] = row_of_day_0


\* the sample names the alias table holds once stripped and put in lower
\* case, and the canonical name of each
Supported == {"price", "close", "Close", "last"}
CanonicalName(a) == IF a = "price" THEN "price" ELSE "last"

SingleQuote ==
    requested = << "AAPL" >> /\ attributes_arg = << "price" >> /\ data_length = 1

\* create_task_list has returned its list of tasks
TasksBuilt == mpc \in {"run", "cache_fetched_data", "aggregate", "done", "TimeoutError"}

AllFetched ==
    /\ mpc = "done"
    /\ \A k \in DOMAIN result : result[k] = "returned"
    /\ \A i \in DOMAIN success : success[i]

\* C28: when every fetch of a run succeeded, the table holds exactly one
\* column (instrument, attribute) for every requested instrument and every
\* requested attribute
C28_OneColumnPerAttribute ==
    AllFetched =>
        \A i \in Range(requested) : \A a \in Range(attributes) :
            Cardinality({j \in DOMAIN columns : columns[j] = << i, a >>}) = 1


\* taskContainer.attempt_count: 0 by default, assigned nowhere
attempt_count(t) == 0

\* _execute_task: `except Exception as e` prints e in debug mode and stores it
\* in no field of the task
error_recorded(t) == FALSE

\* C30: the record of a failed task carries the error of its final attempt
\* and the attempt count retries + 1
C30_FailureRecord ==
    \A t \in failed_tasks :
        /\ error_recorded(t)
        /\ attempt_count(t) = retries + 1


\* the sample identifiers that are purely numeric or start with "126."
NumericOr126 == {"5138094", "1081124", "629014", "126.81"}

\* the fetch type of an identifier follows its format
ByFormat(i) ==
    IF i \in NumericOr126 THEN requests[i] \in TASE_types ELSE requests[i] = "YFINANCE"

C33_VaultFailureIsFatal ==
    mpc = "FileNotFoundError" =>
        /\ requests = << >> /\ request_field = << >>
        /\ taskList = << >> /\ result = << >> /\ success = << >>
        /\ cache_written = << >> /\ fetched_data = << >>

\* the load failed for a request of two instruments
C33_Witness ==
    /\ mpc = "FileNotFoundError"
    /\ requested = << "AAPL", "5138094" >>


\* C34: when the classification of a run has ended, its map holds exactly the
\* requested instruments that were not fresh cache hits, whatever the split
\* of the request into hits and misses
C34_MapIsTheMisses ==
    mpc \notin {"check_cache", "classify", "CacheError", "FileNotFoundError"} =>
        /\ mpc # "IndexError"
        /\ DOMAIN requests = Range(requested) \ CacheHits
\* C35: when create_task_list has ended, every instrument of the
\* classification map that has a fetch type is in exactly one built task,
\* the instrument that arrives at a full batch included
C35_NoneDropped ==
    mpc = "run" =>
        \A i \in DOMAIN requests :
            requests[i] # "NULL" => Cardinality(PlacesOf(i)) = 1

(* ---------------- the timestamps of a row across writes ---------------- *)

\* C37: a step that writes the row of an instrument keeps the row, leaves no
\* set tier timestamp unset or earlier than it was, and leaves the last-fetched
\* timestamp at the time of the write, not earlier than it was, whichever
\* fields were fetched
C37_TimestampsMonotone ==
    [][\A i \in DOMAIN indicators_table :
          /\ i \in DOMAIN indicators_table'
          /\ \A c \in TierColumns :
                 indicators_table[i][c] # None =>
                     /\ indicators_table'[i][c] # None
                     /\ indicators_table'[i][c] >= indicators_table[i][c]
          /\ indicators_table'[i].last_fetched_at >= indicators_table[i].last_fetched_at
          /\ indicators_table'[i] # indicators_table[i] =>
                 indicators_table'[i].last_fetched_at = now']_vars

\* a later write of a price alone: the long-term timestamp of the first write
\* is kept and the last-fetched timestamp is the day of the later write
C37_Witness ==
    /\ "AAPL" \in DOMAIN indicators_table
    /\ indicators_table["AAPL"].longterm_fetched_at = 0
    /\ indicators_table["AAPL"].short_fetched_at = None
    /\ indicators_table["AAPL"].last_fetched_at = 1

(* ---------------- the attempts of fetch_yfinance ---------------- *)

\* every request of the container has its success flag set
AllSucceeded == \A r \in DOMAIN container.requests : container.requests[r]

\* C38: fetch_yfinance makes at most MAX_YF_ATTEMPTS downloads, makes a
\* download only while a request of the container is unsuccessful, and when it
\* has returned container.success is true exactly when every request of the
\* container has its own success flag set
C38_BoundedAttempts ==
    /\ [](downloads <= MAX_YF_ATTEMPTS)
    /\ [](ypc = "done" => (container.success <=> AllSucceeded))
    /\ [][downloads' # downloads => ~AllSucceeded]_vars

\* the last attempt is spent and one request of two has succeeded
C38_Witness ==
    /\ ypc = "done"
    /\ downloads = MAX_YF_ATTEMPTS
    /\ ~container.success
    /\ container.requests = << TRUE, FALSE >>

(* ---------------- the listings of the exchange ---------------- *)

\* C39: after find_YF_equivalent the listings of the exchange are initialised
\* exactly when an instrument is still classified to a fetch type of the
\* exchange; when every instrument is of type YFINANCE no listing is loaded
C39_ListingsOnlyWhenNeeded ==
    mpc = "create_task_list" =>
        (listings_initialised <=> \E i \in DOMAIN requests : requests[i] \in TASE_types)

(* ---------------- the range of a request ---------------- *)

\* the caller has given a period, a start, an end
GivenPeriod == period \notin {"None", ""}
Given(day) == day # None

\* the request was constructed, or its construction has failed
Constructed == mpc \notin {"fetchData", "Unsupported attribute", "Invalid range"}

====
